---- MODULE Spec2Model ----
(***************************************************************************)
(* Model of the WaveEventForm widget of the EEG viewer                     *)
(* (eeg_modelling/eeg_viewer/static/js/wave_event_form.js).                *)
(*                                                                         *)
(* The widget is single-threaded: every handler runs to completion, so     *)
(* each handler is one atomic action.  A nullable number is modelled as a  *)
(* sequence of length 0 (null) or 1 (the number).  The JavaScript Set      *)
(* selectedChannels_ is modelled as a duplicate-free sequence in insertion *)
(* order, which is the order Array.from(set) produces.                     *)
(***************************************************************************)
EXTENDS Integers, Sequences, FiniteSets, TLC

(* ----------------------------- bounds ---------------------------------- *)

\* Largest timeValue a graph click carries.
MaxTime == 2
\* Largest number of entries of store.channelIds.
MaxIds == 2
\* Longest run of clicks remembered since the widget was last fresh.
MaxClicks == 2

(* ----------------------------- inputs ---------------------------------- *)

Times == 0..MaxTime
ChannelNames == {"C3", "C4", "O1"}
ChannelIndexes == {0, 1, 2}
\* Index-to-name maps the store may hold (two montages).
IndexChannelMaps ==
  {[i \in ChannelIndexes |-> IF i = 0 THEN "C3" ELSE IF i = 1 THEN "C4" ELSE "O1"],
   [i \in ChannelIndexes |-> IF i = 0 THEN "C4" ELSE IF i = 1 THEN "O1" ELSE "C3"]}
\* store.channelIds: the first n channel indexes, in order.
ChannelIdLists ==
  {l \in UNION {[1..n -> ChannelIndexes] : n \in 0..MaxIds} :
     \A i \in 1..Len(l) : l[i] = i - 1}
Types == {"SZ", "SPIKE"}
AbsStarts == {3600}
\* Viewport positions <<xPos, yPos>> of a graph click.
ClickPositions == {<<50, 100>>}
InnerHeights == {800}
\* Rendered size of the form while it is visible.
RenderedSizes == {<<330, 487>>}

Null == <<>>
Some(x) == <<x>>

Range(s) == {s[i] : i \in 1..Len(s)}

(* ------------------------------ state ---------------------------------- *)

VARIABLES
  startTime,        \* this.startTime_
  endTime,          \* this.endTime_
  selectedChannels, \* this.selectedChannels_ (insertion order)
  allChannels,      \* this.allChannels_
  checkboxes,       \* checked state of the checkbox built for allChannels[i]
  hidden,           \* the form element carries the class 'hidden'
  startTimeInput,   \* value of the start time input
  endTimeInput,     \* value of the end time input
  formStyle,        \* style.left / style.top of the form
  dropdownText,     \* text of the type dropdown
  dispatched,       \* actions handed to the Dispatcher by the last handler
  lastOp,           \* the handler that ran last, with its arguments
  clicks,           \* clicks handled since the widget was last fresh
  pure              \* only clicks (at most MaxClicks) ran since it was fresh

vars == <<startTime, endTime, selectedChannels, allChannels, checkboxes,
          hidden, startTimeInput, endTimeInput, formStyle, dropdownText,
          dispatched, lastOp, clicks, pure>>

widget == <<startTime, endTime, selectedChannels, allChannels, checkboxes,
            hidden, startTimeInput, endTimeInput, formStyle, dropdownText>>

(* ---------------------------- constants -------------------------------- *)

defaultFormWidth == 330
defaultFormHeight == 487

(* ----------------------------- helpers --------------------------------- *)

\* formatter.formatTime(seconds, true): hours, minutes and seconds.
formatTime(timestamp) ==
  <<timestamp \div 3600, (timestamp \div 60) % 60, timestamp % 60>>

\* montages.channelIndexesToNames: the name of each channel id, in order.
channelIndexesToNames(channelIds, indexChannelMap) ==
  [i \in 1..Len(channelIds) |-> indexChannelMap[channelIds[i]]]

\* Set.prototype.add on the insertion-ordered set.
SetAdd(set, x) == IF x \in Range(set) THEN set ELSE Append(set, x)

\* Set.prototype.delete on the insertion-ordered set.
SetDelete(set, x) == SelectSeq(set, LAMBDA y : y # x)

\* utils.toggleMDLCheckbox on the label document.querySelector finds for the
\* channel: the first checkbox built for that name.  When there is none the
\* lookup yields null and no checkbox changes.
toggleMDLCheckbox(channelName, checked) ==
  IF \E i \in 1..Len(allChannels) : allChannels[i] = channelName
  THEN LET first == CHOOSE i \in 1..Len(allChannels) :
                      /\ allChannels[i] = channelName
                      /\ \A j \in 1..(i - 1) : allChannels[j] # channelName
       IN [checkboxes EXCEPT ![first] = checked]
  ELSE checkboxes

toggleAllChannelCheckboxes_(checked) ==
  [i \in 1..Len(checkboxes) |-> checked]

\* The position with the horizontal test written left <= 0.
setWaveEventFormPosition_leftOrEqual(offsetWidth, offsetHeight, xPos, yPos, innerHeight) ==
  LET formWidth == IF offsetWidth # 0 THEN offsetWidth ELSE defaultFormWidth
      formHeight == IF offsetHeight # 0 THEN offsetHeight ELSE defaultFormHeight
      left0 == xPos - formWidth - 20
      movedLeft == left0 <= 0
      left == IF movedLeft THEN xPos + 10 ELSE left0
      top0 == IF movedLeft THEN yPos + 80 ELSE yPos
      verticalLimit == innerHeight - formHeight - 100
      verticalMovement == IF movedLeft THEN 200 ELSE 20
      top == IF top0 > verticalLimit
             THEN yPos - formHeight - verticalMovement
             ELSE top0
  IN [left |-> left, top |-> top]

setWaveEventFormPosition_(offsetWidth, offsetHeight, xPos, yPos, innerHeight) ==
  LET formWidth == IF offsetWidth # 0 THEN offsetWidth ELSE defaultFormWidth
      formHeight == IF offsetHeight # 0 THEN offsetHeight ELSE defaultFormHeight
      left0 == xPos - formWidth - 20
      movedLeft == left0 < 0
      left == IF movedLeft THEN xPos + 10 ELSE left0
      top0 == IF movedLeft THEN yPos + 80 ELSE yPos
      verticalLimit == innerHeight - formHeight - 100
      verticalMovement == IF movedLeft THEN 200 ELSE 20
      top == IF top0 > verticalLimit
             THEN yPos - formHeight - verticalMovement
             ELSE top0
  IN [left |-> left, top |-> top]

(* ------------------------------- Init ---------------------------------- *)

Init ==
  /\ startTime = Null
  /\ endTime = Null
  /\ selectedChannels = <<>>
  /\ allChannels = <<>>
  /\ checkboxes = <<>>
  /\ hidden = TRUE
  /\ startTimeInput = Null
  /\ endTimeInput = Null
  /\ formStyle = Null
  /\ dropdownText \in Types
  /\ dispatched = <<>>
  /\ lastOp = <<"constructor">>
  /\ clicks = <<>>
  /\ pure = TRUE

\* lastOp is <<handler name, arguments...>>.  A click carries its timeValue
\* and channelName; a save carries pure and clicks as it found them;
\* toggleAllChannels carries checked, the selection it found and whether it
\* directly follows a toggleAllChannels with checked = true.
\*
\* Bookkeeping shared by every handler that is not a click and does not
\* return the widget to its fresh state.
Other(op) ==
  /\ lastOp' = op
  /\ clicks' = <<>>
  /\ pure' = FALSE

\* Bookkeeping of a handler that leaves the widget closed.
Fresh(op) ==
  /\ lastOp' = op
  /\ clicks' = <<>>
  /\ pure' = TRUE

(* ---------------------- handleGraphPointClick -------------------------- *)

\* A click after both times are set starts a new event.
isFirstClick_restarts == startTime = Null \/ endTime # Null

isFirstClick == startTime = Null

\* The null test on endTime_ inverted.
isSecondClick_inverted == ~isFirstClick /\ endTime # Null

isSecondClick == ~isFirstClick /\ endTime = Null

\* The guard with >= in place of >.
isSecondClickAfterStart_orEqual(timeValue) ==
  isSecondClick /\ timeValue >= startTime[1]

\* The guard with the comparison reversed.
isSecondClickAfterStart_before(timeValue) ==
  isSecondClick /\ timeValue < startTime[1]

\* The guard of the branch that records the end time.
isSecondClickAfterStart(timeValue) ==
  isSecondClick /\ timeValue > startTime[1]

\* Marking a channel replaces the selection.
markChannelSelected_replaces(channelName) == <<channelName>>

markChannelSelected(channelName) == SetAdd(selectedChannels, channelName)

markChannelUnselected(channelName) == SetDelete(selectedChannels, channelName)

\* The last branch without its test: the channel is always added.
toggleChannelSelected_alwaysAdds(channelName) ==
  markChannelSelected(channelName)

\* The last branch: flip the membership of the clicked channel.
toggleChannelSelected(channelName) ==
  IF channelName \in Range(selectedChannels)
  THEN markChannelUnselected(channelName)
  ELSE markChannelSelected(channelName)

\* Bookkeeping of a click.
Clicked(timeValue, channelName) ==
  /\ lastOp' = <<"handleGraphPointClick", timeValue, channelName>>
  /\ IF pure /\ Len(clicks) < MaxClicks
     THEN /\ clicks' = Append(clicks, <<timeValue, channelName>>)
          /\ pure' = TRUE
     ELSE /\ clicks' = <<>>
          /\ pure' = FALSE

handleGraphPointClick(timeValue, channelName, xPos, yPos, absStart, innerHeight, size) ==
  LET prettyTime == formatTime(absStart + timeValue)
      offsetWidth == IF hidden THEN 0 ELSE size[1]
      offsetHeight == IF hidden THEN 0 ELSE size[2]
  IN
  /\ IF isFirstClick
     THEN /\ startTimeInput' = Some(prettyTime)
          /\ endTimeInput' = Null
          /\ formStyle' = Some(setWaveEventFormPosition_(
                                 offsetWidth, offsetHeight, xPos, yPos,
                                 innerHeight))
          /\ hidden' = FALSE
          /\ startTime' = Some(timeValue)
          /\ selectedChannels' = markChannelSelected(channelName)
          /\ checkboxes' = toggleMDLCheckbox(channelName, TRUE)
          /\ UNCHANGED endTime
     ELSE IF isSecondClickAfterStart(timeValue)
     THEN /\ endTimeInput' = Some(prettyTime)
          /\ endTime' = Some(timeValue)
          /\ selectedChannels' = markChannelSelected(channelName)
          /\ checkboxes' = toggleMDLCheckbox(channelName, TRUE)
          /\ UNCHANGED <<startTime, startTimeInput, formStyle, hidden>>
     ELSE /\ selectedChannels' = toggleChannelSelected(channelName)
          /\ checkboxes' = toggleMDLCheckbox(
                             channelName,
                             channelName \notin Range(selectedChannels))
          /\ UNCHANGED <<startTime, endTime, startTimeInput, endTimeInput,
                         formStyle, hidden>>
  /\ UNCHANGED <<allChannels, dropdownText>>
  /\ dispatched' = <<>>
  /\ Clicked(timeValue, channelName)

(* ----------------------------- selectType ------------------------------ *)

selectType(type) ==
  /\ dropdownText' = type
  /\ UNCHANGED <<startTime, endTime, selectedChannels, allChannels,
                 checkboxes, hidden, startTimeInput, endTimeInput, formStyle>>
  /\ dispatched' = <<>>
  /\ Other(<<"selectType", type>>)

(* ------------------------------- close --------------------------------- *)

\* close() without selectedChannels_.clear().
close_keepsSelection ==
  /\ startTimeInput' = Null
  /\ endTimeInput' = Null
  /\ checkboxes' = toggleAllChannelCheckboxes_(FALSE)
  /\ startTime' = Null
  /\ endTime' = Null
  /\ hidden' = TRUE
  /\ UNCHANGED <<selectedChannels, allChannels, formStyle, dropdownText>>

\* close() without classList.add('hidden').
close_staysVisible ==
  /\ startTimeInput' = Null
  /\ endTimeInput' = Null
  /\ checkboxes' = toggleAllChannelCheckboxes_(FALSE)
  /\ startTime' = Null
  /\ endTime' = Null
  /\ selectedChannels' = <<>>
  /\ UNCHANGED <<hidden, allChannels, formStyle, dropdownText>>

\* The body of close(), also run at the end of a dispatching save().
close ==
  /\ startTimeInput' = Null
  /\ endTimeInput' = Null
  /\ checkboxes' = toggleAllChannelCheckboxes_(FALSE)
  /\ startTime' = Null
  /\ endTime' = Null
  /\ selectedChannels' = <<>>
  /\ hidden' = TRUE
  /\ UNCHANGED <<allChannels, formStyle, dropdownText>>

Close ==
  /\ close
  /\ dispatched' = <<>>
  /\ Fresh(<<"close">>)

(* -------------------------------- save --------------------------------- *)

\* const endTime = this.endTime_ == null ? startTime : this.endTime_
saveEndTime == IF endTime = Null THEN startTime[1] ELSE endTime[1]

\* The action built after the widget was reset: the selection is gone.
saveAction_afterClose ==
  [actionType |-> "ADD_WAVE_EVENT",
   labelText |-> dropdownText,
   startTime |-> startTime[1],
   duration |-> saveEndTime - startTime[1],
   channelList |-> <<>>]

\* The action carrying the end time in place of the duration.
saveAction_endAsDuration ==
  [actionType |-> "ADD_WAVE_EVENT",
   labelText |-> dropdownText,
   startTime |-> startTime[1],
   duration |-> saveEndTime,
   channelList |-> selectedChannels]

\* The action save() hands to the Dispatcher.
saveAction ==
  [actionType |-> "ADD_WAVE_EVENT",
   labelText |-> dropdownText,
   startTime |-> startTime[1],
   duration |-> saveEndTime - startTime[1],
   channelList |-> selectedChannels]

\* save() with the guard written as a truthiness test: a start time of 0 is
\* taken for an unset one.
save_falsyGuard ==
  IF startTime = Null \/ startTime[1] = 0
  THEN /\ UNCHANGED widget
       /\ dispatched' = <<>>
       /\ Other(<<"save", pure, clicks>>)
  ELSE IF saveEndTime < startTime[1]
  THEN /\ UNCHANGED widget
       /\ dispatched' = <<>>
       /\ Other(<<"save", pure, clicks>>)
  ELSE /\ dispatched' = <<saveAction>>
       /\ close
       /\ Fresh(<<"save", pure, clicks>>)

\* save() that closes the form instead of returning when no start is set.
save_closesWhenUnset ==
  IF startTime = Null
  THEN /\ close
       /\ dispatched' = <<>>
       /\ Other(<<"save", pure, clicks>>)
  ELSE IF saveEndTime < startTime[1]
  THEN /\ UNCHANGED widget
       /\ dispatched' = <<>>
       /\ Other(<<"save", pure, clicks>>)
  ELSE /\ dispatched' = <<saveAction>>
       /\ close
       /\ Fresh(<<"save", pure, clicks>>)

\* The record of a save remembers the clicks that led to it.
save ==
  IF startTime = Null
  THEN /\ UNCHANGED widget
       /\ dispatched' = <<>>
       /\ Other(<<"save", pure, clicks>>)
  ELSE IF saveEndTime < startTime[1]
  THEN /\ UNCHANGED widget
       /\ dispatched' = <<>>
       /\ Other(<<"save", pure, clicks>>)
  ELSE /\ dispatched' = <<saveAction>>
       /\ close
       /\ Fresh(<<"save", pure, clicks>>)

(* -------------------------- toggleAllChannels -------------------------- *)

\* allChannels_.forEach(name => selectedChannels_.add(name))
RECURSIVE AddAll(_, _)
AddAll(set, names) ==
  IF names = <<>> THEN set
  ELSE AddAll(SetAdd(set, Head(names)), Tail(names))

\* Unchecking removes only the known channels.
toggleAllSelection_removesKnown(checked) ==
  IF checked
  THEN AddAll(selectedChannels, allChannels)
  ELSE SelectSeq(selectedChannels, LAMBDA c : c \notin Range(allChannels))

\* Checking replaces the selection by the known channels.
toggleAllSelection_replaces(checked) ==
  IF checked THEN allChannels ELSE <<>>

toggleAllSelection(checked) ==
  IF checked THEN AddAll(selectedChannels, allChannels) ELSE <<>>

toggleAllChannels(checked) ==
  /\ selectedChannels' = toggleAllSelection(checked)
  /\ checkboxes' = toggleAllChannelCheckboxes_(checked)
  /\ UNCHANGED <<startTime, endTime, allChannels, hidden, startTimeInput,
                 endTimeInput, formStyle, dropdownText>>
  /\ dispatched' = <<>>
  /\ Other(<<"toggleAllChannels", checked, selectedChannels,
             lastOp[1] = "toggleAllChannels" /\ lastOp[2]>>)

(* -------------------------- handleChannelNames ------------------------- *)

\* handleChannelNames that also drops the selection when it rebuilds.
handleChannelNames_clearsSelection(channelIds, indexChannelMap) ==
  /\ IF channelIds = Null \/ indexChannelMap = Null
     THEN UNCHANGED <<allChannels, checkboxes, selectedChannels>>
     ELSE /\ allChannels' =
               channelIndexesToNames(channelIds[1], indexChannelMap[1])
          /\ checkboxes' = [i \in 1..Len(channelIds[1]) |-> FALSE]
          /\ selectedChannels' = <<>>
  /\ UNCHANGED <<startTime, endTime, hidden,
                 startTimeInput, endTimeInput, formStyle, dropdownText>>
  /\ dispatched' = <<>>
  /\ Other(<<"handleChannelNames", channelIds, indexChannelMap>>)

\* channelIds and indexChannelMap are Null when the store does not hold them.
\* The checkboxes are built anew, unchecked.  lastOp keeps both arguments.
handleChannelNames(channelIds, indexChannelMap) ==
  /\ IF channelIds = Null \/ indexChannelMap = Null
     THEN UNCHANGED <<allChannels, checkboxes>>
     ELSE /\ allChannels' =
               channelIndexesToNames(channelIds[1], indexChannelMap[1])
          /\ checkboxes' = [i \in 1..Len(channelIds[1]) |-> FALSE]
  /\ UNCHANGED <<startTime, endTime, selectedChannels, hidden,
                 startTimeInput, endTimeInput, formStyle, dropdownText>>
  /\ dispatched' = <<>>
  /\ Other(<<"handleChannelNames", channelIds, indexChannelMap>>)

\* The callback handleChannelNames wires to the checkbox of allChannels[i]:
\* the user flips the checkbox and the callback receives its new state.
channelCheckboxChange(i) ==
  LET checked == ~checkboxes[i]
      channelName == allChannels[i]
  IN
  /\ checkboxes' = [checkboxes EXCEPT ![i] = checked]
  /\ selectedChannels' = IF checked
                         THEN SetAdd(selectedChannels, channelName)
                         ELSE SetDelete(selectedChannels, channelName)
  /\ UNCHANGED <<startTime, endTime, allChannels, hidden, startTimeInput,
                 endTimeInput, formStyle, dropdownText>>
  /\ dispatched' = <<>>
  /\ Other(<<"channelCheckboxChange">>)

(* ------------------------------- Next ---------------------------------- *)

\* A graph click names a channel the graph draws, one of the channels the
\* last channel map gave; its label is then found in the form.
Click ==
  \E timeValue \in Times, channelName \in Range(allChannels),
     pos \in ClickPositions, absStart \in AbsStarts,
     innerHeight \in InnerHeights, size \in RenderedSizes :
    handleGraphPointClick(timeValue, channelName, pos[1], pos[2], absStart,
                          innerHeight, size)

SelectType == \E type \in Types : selectType(type)

Save == save

ToggleAllChannels == \E checked \in BOOLEAN : toggleAllChannels(checked)

ChannelNamesUpdate ==
  \E channelIds \in {Null} \cup {Some(l) : l \in ChannelIdLists},
     indexChannelMap \in {Null} \cup {Some(m) : m \in IndexChannelMaps} :
    handleChannelNames(channelIds, indexChannelMap)

CheckboxChange == \E i \in 1..Len(checkboxes) : channelCheckboxChange(i)

Next ==
  \/ Click
  \/ SelectType
  \/ Close
  \/ Save
  \/ ToggleAllChannels
  \/ ChannelNamesUpdate
  \/ CheckboxChange

Spec == Init /\ [][Next]_vars

TypeOK ==
  /\ startTime \in {Null} \cup {Some(t) : t \in Times}
  /\ endTime \in {Null} \cup {Some(t) : t \in Times}
  /\ Range(selectedChannels) \subseteq ChannelNames
  /\ Cardinality(Range(selectedChannels)) = Len(selectedChannels)
  /\ Range(allChannels) \subseteq ChannelNames
  /\ Len(checkboxes) = Len(allChannels)
  /\ hidden \in BOOLEAN
  /\ Len(dispatched) <= 1

(* ------------------------------ claims --------------------------------- *)

IsClick(op) == op[1] = "handleGraphPointClick"
IsSave(op) == op[1] = "save"
IsClose(op) == op[1] = "close"
IsToggleAll(op) == op[1] = "toggleAllChannels"

\* C1: in every reachable state, a non-null endTime comes with a non-null
\* startTime and is strictly greater than it.
C1_EndTimeAfterStartTime ==
  endTime # Null => (startTime # Null /\ endTime[1] > startTime[1])

C1_Witness ==
  /\ endTime # Null
  /\ startTime # Null
  /\ IsClick(lastOp)
  /\ endTime = Some(lastOp[2])

\* C2: a save() called while startTime is unset dispatches nothing and
\* leaves startTime, endTime, selectedChannels, allChannels and the form's
\* visibility as they were.
C2_SaveUnsetIsNoOp ==
  [][(IsSave(lastOp') /\ startTime = Null)
       => /\ dispatched' = <<>>
          /\ UNCHANGED <<startTime, endTime, selectedChannels, allChannels,
                         hidden>>]_vars

\* A save() that found no start time while channels were selected.
C2_Witness ==
  /\ IsSave(lastOp)
  /\ dispatched = <<>>
  /\ startTime = Null
  /\ selectedChannels # <<>>
  /\ allChannels # <<>>

\* C3: two clicks (t1, c1), (t2, c2) with t2 > t1 on the fresh widget and
\* then save(): the action has startTime = t1, duration = t2 - t1 and a
\* channelList whose elements are exactly c1 and c2.
C3_TwoClicksThenSave ==
  (/\ IsSave(lastOp)
   /\ lastOp[2]
   /\ Len(lastOp[3]) = 2
   /\ lastOp[3][2][1] > lastOp[3][1][1])
    => /\ Len(dispatched) = 1
       /\ dispatched[1].startTime = lastOp[3][1][1]
       /\ dispatched[1].duration = lastOp[3][2][1] - lastOp[3][1][1]
       /\ Range(dispatched[1].channelList) = {lastOp[3][1][2], lastOp[3][2][2]}

C3_Witness ==
  /\ IsSave(lastOp)
  /\ lastOp[2]
  /\ Len(lastOp[3]) = 2
  /\ lastOp[3][2][1] > lastOp[3][1][1]
  /\ lastOp[3][1][2] # lastOp[3][2][2]
  /\ Len(dispatched) = 1
  /\ Len(dispatched[1].channelList) = 2

\* C4: one click at time t (0 included) on the fresh widget and then save():
\* exactly one action, with startTime = t and duration = 0.
C4_OneClickThenSave ==
  (/\ IsSave(lastOp)
   /\ lastOp[2]
   /\ Len(lastOp[3]) = 1)
    => /\ Len(dispatched) = 1
       /\ dispatched[1].actionType = "ADD_WAVE_EVENT"
       /\ dispatched[1].startTime = lastOp[3][1][1]
       /\ dispatched[1].duration = 0

\* The single click was at time 0.
C4_Witness ==
  /\ IsSave(lastOp)
  /\ lastOp[2]
  /\ Len(lastOp[3]) = 1
  /\ lastOp[3][1][1] = 0
  /\ Len(dispatched) = 1
  /\ dispatched[1].startTime = 0

Closed ==
  /\ startTime = Null
  /\ endTime = Null
  /\ selectedChannels = <<>>
  /\ \A i \in 1..Len(checkboxes) : ~checkboxes[i]
  /\ hidden

\* C5: after close() the times are null, the selection is empty, every
\* checkbox is unchecked and the form is hidden; a second close() changes
\* nothing.
C5_CloseResets ==
  [][/\ IsClose(lastOp') => Closed'
     /\ (IsClose(lastOp) /\ IsClose(lastOp')) => UNCHANGED widget]_vars

\* The form was shown, with checkboxes built, and then closed.
C5_Witness ==
  /\ IsClose(lastOp)
  /\ Closed
  /\ formStyle # Null
  /\ checkboxes # <<>>

\* C6: a save() called with startTime set dispatches exactly one
\* ADD_WAVE_EVENT action carrying the startTime, the duration and the
\* selection as they were before the call, then leaves the widget reset as
\* close() does; a save() directly after a save() dispatches nothing.
C6_SaveDispatchesThenResets ==
  [][/\ (IsSave(lastOp') /\ startTime # Null)
          => /\ Len(dispatched') = 1
             /\ dispatched'[1].actionType = "ADD_WAVE_EVENT"
             /\ dispatched'[1].labelText = dropdownText
             /\ dispatched'[1].startTime = startTime[1]
             /\ dispatched'[1].duration =
                  (IF endTime = Null THEN startTime[1] ELSE endTime[1])
                    - startTime[1]
             /\ dispatched'[1].channelList = selectedChannels
             /\ startTime' = Null
             /\ endTime' = Null
             /\ selectedChannels' = <<>>
             /\ hidden'
     /\ (IsSave(lastOp) /\ IsSave(lastOp')) => dispatched' = <<>>]_vars

C6_Witness ==
  /\ IsSave(lastOp)
  /\ Len(dispatched) = 1
  /\ dispatched[1].duration > 0
  /\ dispatched[1].channelList # <<>>
  /\ startTime = Null
  /\ selectedChannels = <<>>
  /\ hidden

\* C7: a click (t, c) while startTime is null sets startTime = t, leaves
\* endTime null, selects c without unselecting anything and shows the form.
C7_FirstClick ==
  [][(IsClick(lastOp') /\ startTime = Null)
       => /\ startTime' = Some(lastOp'[2])
          /\ endTime' = Null
          /\ lastOp'[3] \in Range(selectedChannels')
          /\ Range(selectedChannels) \subseteq Range(selectedChannels')
          /\ ~hidden']_vars

\* The first click on the fresh widget.
C7_Witness ==
  /\ IsClick(lastOp)
  /\ pure
  /\ Len(clicks) = 1
  /\ startTime = Some(lastOp[2])
  /\ endTime = Null
  /\ selectedChannels = <<lastOp[3]>>
  /\ ~hidden

\* C8: a click (t, c) while startTime is set, endTime is null and
\* t > startTime sets endTime = t, keeps startTime and adds c to the
\* selection: nothing selected is unselected, c included.
C8_SecondClick ==
  [][(/\ IsClick(lastOp')
      /\ startTime # Null
      /\ endTime = Null
      /\ lastOp'[2] > startTime[1])
       => /\ endTime' = Some(lastOp'[2])
          /\ startTime' = startTime
          /\ Range(selectedChannels') =
               Range(selectedChannels) \cup {lastOp'[3]}]_vars

\* Both clicks were on the same channel, which stays selected.
C8_Witness ==
  /\ IsClick(lastOp)
  /\ pure
  /\ Len(clicks) = 2
  /\ clicks[1][2] = clicks[2][2]
  /\ clicks[2][1] > clicks[1][1]
  /\ endTime = Some(clicks[2][1])
  /\ startTime = Some(clicks[1][1])
  /\ selectedChannels = <<clicks[1][2]>>

\* C9: a click (t, c) while startTime is set and either endTime is set or
\* t <= startTime keeps both times and only flips the membership of c.
C9_LaterClickToggles ==
  [][(/\ IsClick(lastOp')
      /\ startTime # Null
      /\ (endTime # Null \/ lastOp'[2] <= startTime[1]))
       => /\ UNCHANGED <<startTime, endTime>>
          /\ (lastOp'[3] \in Range(selectedChannels'))
               <=> (lastOp'[3] \notin Range(selectedChannels))
          /\ \A c \in ChannelNames \ {lastOp'[3]} :
               (c \in Range(selectedChannels'))
                 <=> (c \in Range(selectedChannels))]_vars

\* A second click not after the first, on the same channel: no end time,
\* and the channel is unselected again.
C9_Witness ==
  /\ IsClick(lastOp)
  /\ pure
  /\ Len(clicks) = 2
  /\ clicks[2][1] <= clicks[1][1]
  /\ clicks[1][2] = clicks[2][2]
  /\ startTime = Some(clicks[1][1])
  /\ endTime = Null
  /\ selectedChannels = <<>>

\* C10: toggleAllChannels(true) directly followed by
\* toggleAllChannels(false) leaves the selection empty, and neither call
\* changes startTime or endTime.
C10_CheckAllThenUncheckAll ==
  [][/\ (IsToggleAll(lastOp') /\ ~lastOp'[2] /\ lastOp'[4])
          => selectedChannels' = <<>>
     /\ IsToggleAll(lastOp') => UNCHANGED <<startTime, endTime>>]_vars

\* The second call found selected every known channel and a channel that is
\* not in allChannels, during an interaction.
C10_Witness ==
  /\ IsToggleAll(lastOp)
  /\ ~lastOp[2]
  /\ lastOp[4]
  /\ allChannels # <<>>
  /\ Range(allChannels) \subseteq Range(lastOp[3])
  /\ Range(lastOp[3]) \ Range(allChannels) # {}
  /\ selectedChannels = <<>>
  /\ startTime # Null

(* ------------------- the form position on its own ---------------------- *)

\* Click positions, measured form sizes and viewport heights that reach both
\* sides of each test of setWaveEventFormPosition_: xPos - width - 20 is -1
\* and 0, and top is at and just above innerHeight - height - 100, with the
\* default size (measured 0) and with a measured one.
PosXs == {50, 319, 320, 349, 350, 400}
PosYs == {100, 133, 134, 213, 214, 220, 221, 300, 301, 700}
PosSizes == {<<0, 0>>, <<0, 400>>, <<300, 400>>}
PosHeights == {800}

\* One call of setWaveEventFormPosition_ on the form; lastOp keeps the
\* arguments and the measurements it read.
Position ==
  \E xPos \in PosXs, yPos \in PosYs, size \in PosSizes,
     innerHeight \in PosHeights :
    /\ formStyle' = Some(setWaveEventFormPosition_(size[1], size[2], xPos,
                                                   yPos, innerHeight))
    /\ lastOp' = <<"setWaveEventFormPosition_", xPos, yPos, size[1],
                   size[2], innerHeight>>
    /\ UNCHANGED <<startTime, endTime, selectedChannels, allChannels,
                   checkboxes, hidden, startTimeInput, endTimeInput,
                   dropdownText, dispatched, clicks, pure>>

PosNext == Position

PosSpec == Init /\ [][PosNext]_vars

IsPosition(op) == op[1] = "setWaveEventFormPosition_"

\* The width and height the claim uses: 330 and 487 when measured as 0.
C11_Width == IF lastOp[4] = 0 THEN 330 ELSE lastOp[4]
C11_Height == IF lastOp[5] = 0 THEN 487 ELSE lastOp[5]
C11_Moved == lastOp[2] - C11_Width - 20 < 0
C11_Left == IF C11_Moved THEN lastOp[2] + 10 ELSE lastOp[2] - C11_Width - 20
C11_TopBeforeShift == IF C11_Moved THEN lastOp[3] + 80 ELSE lastOp[3]
C11_Overflows == C11_TopBeforeShift > lastOp[6] - C11_Height - 100

\* C11 as stated: on overflow the top reached so far is shifted upward by
\* h + 200 when moved and by h + 20 otherwise.
C11_ShiftFromTop ==
  IsPosition(lastOp)
    => /\ formStyle[1].left = C11_Left
       /\ formStyle[1].top =
            IF C11_Overflows
            THEN C11_TopBeforeShift
                   - (C11_Height + (IF C11_Moved THEN 200 ELSE 20))
            ELSE C11_TopBeforeShift

\* C11 (amended): left = xPos - w - 20 and top = yPos; if left < 0 then
\* left = xPos + 10 and top = yPos + 80 (moved); then if top > H - h - 100
\* the top becomes yPos - h - 200 when moved and yPos - h - 20 otherwise:
\* the upward shift is measured from the click, not from the top reached so
\* far.  The click (50, 100) with the default size and H = 800 gives
\* (60, 180).
C11_FormPosition ==
  IsPosition(lastOp)
    => /\ formStyle[1].left = C11_Left
       /\ formStyle[1].top =
            IF C11_Overflows
            THEN lastOp[3] - C11_Height - (IF C11_Moved THEN 200 ELSE 20)
            ELSE C11_TopBeforeShift
       /\ (lastOp = <<"setWaveEventFormPosition_", 50, 100, 0, 0, 800>>)
            => formStyle[1] = [left |-> 60, top |-> 180]

\* A moved form that overflows: xPos = 349 gives left = -1, and
\* yPos + 80 is just above the limit 213.
C11_Witness ==
  /\ IsPosition(lastOp)
  /\ lastOp = <<"setWaveEventFormPosition_", 349, 134, 0, 0, 800>>
  /\ formStyle[1] = [left |-> 359, top |-> 134 - 487 - 200]

(* ----------------------- claims on the widget -------------------------- *)

\* C12: no reachable state has both times set with endTime < startTime, so
\* the second guard of save() is never taken: every save() called with
\* startTime set dispatches an action, and its duration is >= 0.
C12_GuardNeverFires ==
  [][/\ ~(startTime # Null /\ endTime # Null /\ endTime[1] < startTime[1])
     /\ (IsSave(lastOp') /\ startTime # Null)
          => /\ Len(dispatched') = 1
             /\ dispatched'[1].duration >= 0]_vars

\* A save() after other handlers ran, with a positive duration.
C12_Witness ==
  /\ IsSave(lastOp)
  /\ ~lastOp[2]
  /\ Len(dispatched) = 1
  /\ dispatched[1].duration > 0

\* C13 as stated: a click that arrives while startTime is set replaces the
\* stored startTime by its timeValue.
C13_ClickOverwritesStart ==
  [][(IsClick(lastOp') /\ startTime # Null)
       => startTime' = Some(lastOp'[2])]_vars

\* C13 (amended): there is no cancellation step, and a click that arrives
\* while startTime is set never replaces it; startTime changes again only
\* after close() or a dispatching save() has reset it to null.
C13_ClickKeepsStart ==
  [][/\ (IsClick(lastOp') /\ startTime # Null) => startTime' = startTime
     /\ (startTime # Null /\ startTime' # startTime)
          => /\ startTime' = Null
             /\ IsClose(lastOp') \/ (IsSave(lastOp') /\ Len(dispatched') = 1)
    ]_vars

\* A click after both times were set, at a time that is neither of them:
\* the start time is still the one stored before.
C13_Witness ==
  /\ IsClick(lastOp)
  /\ startTime # Null
  /\ endTime # Null
  /\ lastOp[2] # startTime[1]
  /\ lastOp[2] # endTime[1]

\* C14: toggleAllChannels with checked = true makes the selection the union
\* of the previous selection and allChannels.
C14_CheckAllIsUnion ==
  [][(IsToggleAll(lastOp') /\ lastOp'[2])
       => Range(selectedChannels') =
            Range(selectedChannels) \cup Range(allChannels)]_vars

\* The call found selected a channel that is not known and added a known
\* channel that was not selected.
C14_Witness ==
  /\ IsToggleAll(lastOp)
  /\ lastOp[2]
  /\ Range(lastOp[3]) \ Range(allChannels) # {}
  /\ Range(allChannels) \ Range(lastOp[3]) # {}
  /\ Range(selectedChannels) = Range(lastOp[3]) \cup Range(allChannels)

\* C18: the form is visible exactly when startTime is set; only a first
\* click shows it, and only close() or a dispatching save() hides it.
C18_VisibleIffStarted ==
  [][/\ hidden <=> (startTime = Null)
     /\ hidden' <=> (startTime' = Null)
     /\ (hidden /\ ~hidden') => (IsClick(lastOp') /\ startTime = Null)
     /\ (~hidden /\ hidden')
          => (IsClose(lastOp') \/ (IsSave(lastOp') /\ Len(dispatched') = 1))
    ]_vars

\* The form is shown with both times set and every channel toggled off.
C18_Witness ==
  /\ ~hidden
  /\ startTime # Null
  /\ endTime # Null
  /\ selectedChannels = <<>>
  /\ IsClick(lastOp)

IsChannelNames(op) == op[1] = "handleChannelNames"

\* C15: handleChannelNames with channelIds or indexChannelMap absent changes
\* nothing; with both present allChannels becomes the names the map gives to
\* the ids, one checkbox is built per name, and startTime, endTime and the
\* selection stay as they were.
C15_ChannelNames ==
  [][IsChannelNames(lastOp')
       => IF lastOp'[2] = Null \/ lastOp'[3] = Null
          THEN UNCHANGED widget
          ELSE /\ Len(allChannels') = Len(lastOp'[2][1])
               /\ \A i \in 1..Len(allChannels') :
                    allChannels'[i] = lastOp'[3][1][lastOp'[2][1][i]]
               /\ Len(checkboxes') = Len(allChannels')
               /\ UNCHANGED <<startTime, endTime, selectedChannels>>]_vars

\* An update during an interaction that replaced the known channels while
\* a channel of the former list stays selected.
C15_Witness ==
  /\ IsChannelNames(lastOp)
  /\ lastOp[2] # Null
  /\ lastOp[3] # Null
  /\ allChannels # <<>>
  /\ Len(checkboxes) = Len(allChannels)
  /\ startTime # Null
  /\ Range(selectedChannels) \ Range(allChannels) # {}

\* C16: the checkbox of each channel of allChannels is checked exactly when
\* the channel is in selectedChannels.
C16_CheckboxesShowSelection ==
  \A i \in 1..Len(allChannels) :
    checkboxes[i] <=> (allChannels[i] \in Range(selectedChannels))

\* C17: every channel name in the channelList of a dispatched action is in
\* allChannels at the moment of the save().
C17_DispatchedChannelsKnown ==
  (IsSave(lastOp) /\ Len(dispatched) = 1)
    => Range(dispatched[1].channelList) \subseteq Range(allChannels)

====
